---------------------------- MODULE Spec2Model ----------------------------
(***************************************************************************)
(* Model of ppg-js: the PPGMonitor frame loop (src/src/PPGMonitor.js), the  *)
(* SignalProcessor (src/src/SignalProcessor.js) and the helpers of          *)
(* utils/helpers.js, utils/fft.js (src/unnamed/part_002) and                *)
(* utils/detrend.js (src/unnamed/part_003).                                 *)
(*                                                                         *)
(* JavaScript numbers are modelled as exact rationals <<n, d>> in lowest    *)
(* terms with d > 0, plus NaN == <<0, 0>>.  Comparisons with NaN are        *)
(* false, arithmetic with NaN is NaN, 0/0 is NaN.  Floating-point rounding  *)
(* and the infinities are not modelled.  Math.sqrt, Math.log10 and the      *)
(* FFT twiddle factor cos(pi/4) are computed to a fixed resolution.         *)
(***************************************************************************)
EXTENDS Integers, Sequences, FiniteSets, TLC

(***************************************************************************)
(* Numbers                                                                  *)
(***************************************************************************)
Abs(i) == IF i < 0 THEN -i ELSE i

RECURSIVE GCD(_, _)
GCD(a, b) == IF b = 0 THEN a ELSE GCD(b, a % b)

NaN == <<0, 0>>

IsNaN(x) == x[2] = 0

\* the rational n/d in lowest terms; d = 0 gives NaN
Rat(n, d) ==
  IF d = 0 THEN NaN
  ELSE LET g == GCD(Abs(n), Abs(d))
           s == IF d < 0 THEN -1 ELSE 1
       IN  <<s * (n \div g), s * (d \div g)>>

Num(i) == <<i, 1>>

Zero == Num(0)

One == Num(1)

Add(x, y) ==
  IF IsNaN(x) \/ IsNaN(y) THEN NaN
  ELSE LET g == GCD(x[2], y[2])
       IN  Rat(x[1] * (y[2] \div g) + y[1] * (x[2] \div g), (x[2] \div g) * y[2])

Neg(x) == IF IsNaN(x) THEN NaN ELSE <<-x[1], x[2]>>

Sub(x, y) == Add(x, Neg(y))

Mul(x, y) ==
  IF IsNaN(x) \/ IsNaN(y) THEN NaN
  ELSE LET g1 == GCD(Abs(x[1]), y[2])
           g2 == GCD(Abs(y[1]), x[2])
       IN  Rat((x[1] \div g1) * (y[1] \div g2), (x[2] \div g2) * (y[2] \div g1))

\* x / y; 0/0 is NaN.  A non-zero numerator over zero (an infinity in
\* JavaScript) does not occur for the inputs of this model.
Div(x, y) ==
  IF IsNaN(x) \/ IsNaN(y) \/ y[1] = 0 THEN NaN
  ELSE Mul(x, Rat(y[2], y[1]))

\* x < y, false when either is NaN
LT(x, y) ==
  /\ ~IsNaN(x)
  /\ ~IsNaN(y)
  /\ LET g == GCD(x[2], y[2])
     IN  x[1] * (y[2] \div g) < y[1] * (x[2] \div g)

GT(x, y) == LT(y, x)

\* x === y on numbers, false when either is NaN
EQ(x, y) == ~IsNaN(x) /\ ~IsNaN(y) /\ x = y

LE(x, y) == LT(x, y) \/ EQ(x, y)

GE(x, y) == LE(y, x)

\* Math.min / Math.max: NaN when either argument is NaN
MathMin(x, y) == IF IsNaN(x) \/ IsNaN(y) THEN NaN ELSE IF LT(y, x) THEN y ELSE x

MathMax(x, y) == IF IsNaN(x) \/ IsNaN(y) THEN NaN ELSE IF LT(x, y) THEN y ELSE x

\* Math.floor, Math.ceil and Math.round (round half up) as numbers
MathFloor(x) == IF IsNaN(x) THEN NaN ELSE Num(x[1] \div x[2])

MathCeil(x) == Neg(MathFloor(Neg(x)))

MathRound(x) == MathFloor(Add(x, Rat(1, 2)))

\* largest r in lo..hi with r * r <= n (lo * lo <= n < (hi + 1) * (hi + 1))
RECURSIVE ISqrtIn(_, _, _)
ISqrtIn(n, lo, hi) ==
  IF lo >= hi THEN lo
  ELSE LET mid == (lo + hi + 1) \div 2
       IN  IF mid * mid <= n THEN ISqrtIn(n, mid, hi) ELSE ISqrtIn(n, lo, mid - 1)

\* resolution of Math.sqrt in the model: results are multiples of 1/SqrtScale
SqrtScale == 100

\* Math.sqrt, rounded down to the model's resolution; NaN for x < 0
MathSqrt(x) ==
  IF IsNaN(x) \/ x[1] < 0 THEN NaN
  ELSE Rat(ISqrtIn((x[1] * SqrtScale * SqrtScale) \div x[2], 0, 46340), SqrtScale)

\* floor(log2(n)) for an integer n >= 1
RECURSIVE ILog2(_)
ILog2(n) == IF n < 2 THEN 0 ELSE 1 + ILog2(n \div 2)

RECURSIVE Pow2(_)
Pow2(k) == IF k = 0 THEN 1 ELSE 2 * Pow2(k - 1)

\* number of fractional bits of the logarithm in the model
LogBits == 8

\* the LogBits fractional bits of log2(m / 2^14), m in [2^14, 2^15)
RECURSIVE Log2Frac(_, _, _)
Log2Frac(m, k, acc) ==
  IF k = 0 THEN acc
  ELSE LET m2 == (m * m) \div Pow2(14)
       IN  IF m2 >= Pow2(15) THEN Log2Frac(m2 \div 2, k - 1, 2 * acc + 1)
           ELSE Log2Frac(m2, k - 1, 2 * acc)

\* log2(n) for an integer n >= 1, rounded down to LogBits fractional bits
Log2Int(n) ==
  LET e == ILog2(n)
      m == IF e <= 14 THEN n * Pow2(14 - e) ELSE n \div Pow2(e - 14)
  IN  Rat(e * Pow2(LogBits) + Log2Frac(m, LogBits, 0), Pow2(LogBits))

\* log10(2) to four decimals
Log10Of2 == Rat(301, 1000)

\* Math.log10 of a positive rational, to the model's resolution
MathLog10(x) == Mul(Sub(Log2Int(x[1]), Log2Int(x[2])), Log10Of2)

(***************************************************************************)
(* Arrays are sequences: JavaScript index i is position i + 1.              *)
(***************************************************************************)
RECURSIVE SumTo(_, _)
SumTo(s, k) == IF k = 0 THEN Zero ELSE Add(SumTo(s, k - 1), s[k])

Fill(n, v) == [i \in 1..n |-> v]

(***************************************************************************)
(* utils/helpers.js                                                         *)
(***************************************************************************)
\* windowMean(array): sum / n (0/0 = NaN on an empty array)
windowMean(array) == Div(SumTo(array, Len(array)), Num(Len(array)))

getQualityStatusStrict(snr) ==
  IF GT(snr, Num(10)) THEN "Excellent"
  ELSE IF GT(snr, Num(5)) THEN "Good"
  ELSE IF GT(snr, Zero) THEN "Fair"
  ELSE "Poor"

getQualityStatus(snr) ==
  IF GE(snr, Num(10)) THEN "Excellent"
  ELSE IF GE(snr, Num(5)) THEN "Good"
  ELSE IF GE(snr, Zero) THEN "Fair"
  ELSE "Poor"

generateGuidanceSwapped(snr, pi, stability) ==
  IF LT(snr, Zero)
    THEN IF LT(pi, Rat(3, 10)) THEN "Cover camera completely with finger"
         ELSE "Adjust finger placement"
  ELSE IF GE(snr, Zero) /\ LT(snr, Num(5))
    THEN IF LT(pi, One) THEN "Press finger more firmly"
         ELSE IF LT(stability, Rat(1, 2)) THEN "Hold finger still"
         ELSE IF GT(pi, Num(15)) THEN "Reduce finger pressure slightly"
         ELSE "Adjusting... hold steady"
  ELSE IF GE(snr, Num(5)) /\ LT(snr, Num(10)) THEN "Good signal - hold steady"
  ELSE "Excellent signal!"

generateGuidance(snr, pi, stability) ==
  IF LT(snr, Zero)
    THEN IF LT(pi, Rat(3, 10)) THEN "Cover camera completely with finger"
         ELSE "Adjust finger placement"
  ELSE IF GE(snr, Zero) /\ LT(snr, Num(5))
    THEN IF LT(pi, One) THEN "Press finger more firmly"
         ELSE IF GT(pi, Num(15)) THEN "Reduce finger pressure slightly"
         ELSE IF LT(stability, Rat(1, 2)) THEN "Hold finger still"
         ELSE "Adjusting... hold steady"
  ELSE IF GE(snr, Num(5)) /\ LT(snr, Num(10)) THEN "Good signal - hold steady"
  ELSE "Excellent signal!"

(***************************************************************************)
(* utils/detrend.js                                                         *)
(***************************************************************************)
detrendMeanOnly(y) ==
  LET n  == Len(y)
      my == Div(SumTo(y, n), Num(n))
  IN  [i \in 1..n |-> Sub(y[i], my)]

detrend(y) ==
  LET n   == Len(y)
      x   == [i \in 1..n |-> Num(i - 1)]
      sx  == SumTo(x, n)
      sy  == SumTo(y, n)
      sxy == SumTo([i \in 1..n |-> Mul(x[i], y[i])], n)
      sxx == SumTo([i \in 1..n |-> Mul(x[i], x[i])], n)
      mx  == Div(sx, Num(n))
      my  == Div(sy, Num(n))
      xx  == Sub(Mul(Num(n), sxx), Mul(sx, sx))
      xy  == Sub(Mul(Num(n), sxy), Mul(sx, sy))
      slope == Div(xy, xx)
      intercept == Sub(my, Mul(slope, mx))
  IN  [i \in 1..n |-> Sub(y[i], Add(intercept, Mul(slope, Num(i - 1))))]

(***************************************************************************)
(* utils/fft.js                                                             *)
(***************************************************************************)
\* cos(pi/4) to four decimals
CosPi4 == Rat(99, 140)

\* cos(2 pi m / 8) and sin(2 pi m / 8)
Cos8(m) ==
  LET r == m % 8
  IN  IF r = 0 THEN One
      ELSE IF r = 4 THEN Num(-1)
      ELSE IF r \in {2, 6} THEN Zero
      ELSE IF r \in {1, 7} THEN CosPi4
      ELSE Neg(CosPi4)

Sin8(m) == Cos8(m + 6)

\* fft.js accepts a size that is a power of two bigger than 1; the model
\* has the twiddle factors of the sizes up to 8
FFTSizes == {2, 4, 8}

\* new FFT(fftSize): the constructor of the fft.js package throws unless the
\* size is a power of two bigger than 1
FFTSizeOk(size) == size > 1 /\ Pow2(ILog2(size)) = size

\* the forward transform of the real input, bin k: <<real, imag>>
Transform(padded, fftSize, k) ==
  LET step == 8 \div fftSize
      re == SumTo([j \in 1..fftSize |->
                     Mul(padded[j], Cos8(k * (j - 1) * step))], fftSize)
      im == SumTo([j \in 1..fftSize |->
                     Neg(Mul(padded[j], Sin8(k * (j - 1) * step)))], fftSize)
  IN  <<re, im>>

computeFFT(signal, fftSize, sampleRate) ==
  LET n == Len(signal)
      paddedSignal == [j \in 1..fftSize |-> IF j <= n THEN signal[j] ELSE Zero]
      psd == [i \in 1..(fftSize \div 2) |->
                LET out == Transform(paddedSignal, fftSize, i - 1)
                IN  Add(Mul(out[1], out[1]), Mul(out[2], out[2]))]
  IN  [psd |-> psd, fftSize |-> fftSize, sampleRate |-> sampleRate,
       freqResolution |-> Div(sampleRate, Num(fftSize))]

\* log10(|v| + 1e-10): the epsilon is below the model's resolution and
\* decides the value only when v = 0
Log10Eps(v) == IF v[1] = 0 THEN Num(-10) ELSE MathLog10(<<Abs(v[1]), v[2]>>)

\* 10 * Math.log10((signalPower + epsilon) / (noisePower + epsilon))
SnrDbNoEps(signalPower, noisePower) ==
  IF IsNaN(Div(signalPower, noisePower)) THEN NaN
  ELSE Mul(Num(10), Sub(Log10Eps(signalPower), Log10Eps(noisePower)))

SnrDb(signalPower, noisePower) ==
  IF IsNaN(signalPower) \/ IsNaN(noisePower) THEN NaN
  ELSE IF signalPower = noisePower THEN Zero
  ELSE IF (signalPower[1] < 0) # (noisePower[1] < 0) THEN NaN
  ELSE Mul(Num(10), Sub(Log10Eps(signalPower), Log10Eps(noisePower)))

\* the loop over the bins i = 1 .. psd.length - 1, from bin i on
RECURSIVE SNRLoop(_, _, _, _)
SNRLoop(psd, band, i, acc) ==
  IF i >= Len(psd) THEN acc
  ELSE LET p == psd[i + 1]
           inBand == GE(Num(i), band.low) /\ LE(Num(i), band.high)
           isPeak == inBand /\ GT(p, acc.maxPower)
       IN  SNRLoop(psd, band, i + 1,
             [totalPower  |-> Add(acc.totalPower, p),
              signalPower |-> IF inBand THEN Add(acc.signalPower, p)
                              ELSE acc.signalPower,
              maxPower    |-> IF isPeak THEN p ELSE acc.maxPower,
              peakIdx     |-> IF isPeak THEN i ELSE acc.peakIdx])

calculateSNRFromPSDClamped(psd, freqResolution, cardiacBandLow, cardiacBandHigh) ==
  LET last == Num(Len(psd) - 1)
      clamp(x) == MathMax(One, MathMin(last, x))
      signalBandIdx ==
        [low  |-> clamp(MathFloor(Div(cardiacBandLow, freqResolution))),
         high |-> clamp(MathCeil(Div(cardiacBandHigh, freqResolution)))]
      sums == SNRLoop(psd, signalBandIdx, 1,
                [totalPower |-> Zero, signalPower |-> Zero,
                 maxPower |-> Zero, peakIdx |-> 0])
      noisePower == Sub(sums.totalPower, sums.signalPower)
  IN  [snr_dB        |-> SnrDb(sums.signalPower, noisePower),
       peakIdx       |-> sums.peakIdx,
       peakFrequency |-> Mul(Num(sums.peakIdx), freqResolution),
       signalPower   |-> sums.signalPower,
       noisePower    |-> noisePower,
       totalPower    |-> sums.totalPower]

\* if (psd[i] > maxPower) { maxPower = psd[i]; peakIdx = i }, inside the
\* test of the band
calculateSNRFromPSDGlobalPeak(psd, freqResolution, cardiacBandLow, cardiacBandHigh) ==
  LET signalBandIdx == [low  |-> MathFloor(Div(cardiacBandLow, freqResolution)),
                        high |-> MathCeil(Div(cardiacBandHigh, freqResolution))]
      sums == SNRLoop(psd, signalBandIdx, 1,
                [totalPower |-> Zero, signalPower |-> Zero,
                 maxPower |-> Zero, peakIdx |-> 0])
      whole == SNRLoop(psd, [low |-> One, high |-> Num(Len(psd))], 1,
                [totalPower |-> Zero, signalPower |-> Zero,
                 maxPower |-> Zero, peakIdx |-> 0])
      noisePower == Sub(sums.totalPower, sums.signalPower)
  IN  [snr_dB        |-> SnrDb(sums.signalPower, noisePower),
       peakIdx       |-> whole.peakIdx,
       peakFrequency |-> Mul(Num(whole.peakIdx), freqResolution),
       signalPower   |-> sums.signalPower,
       noisePower    |-> noisePower,
       totalPower    |-> sums.totalPower]

calculateSNRFromPSD(psd, freqResolution, cardiacBandLow, cardiacBandHigh) ==
  LET signalBandIdx == [low  |-> MathFloor(Div(cardiacBandLow, freqResolution)),
                        high |-> MathCeil(Div(cardiacBandHigh, freqResolution))]
      sums == SNRLoop(psd, signalBandIdx, 1,
                [totalPower |-> Zero, signalPower |-> Zero,
                 maxPower |-> Zero, peakIdx |-> 0])
      noisePower == Sub(sums.totalPower, sums.signalPower)
  IN  [snr_dB        |-> SnrDb(sums.signalPower, noisePower),
       peakIdx       |-> sums.peakIdx,
       peakFrequency |-> Mul(Num(sums.peakIdx), freqResolution),
       signalPower   |-> sums.signalPower,
       noisePower    |-> noisePower,
       totalPower    |-> sums.totalPower]


(***************************************************************************)
(* SignalProcessor.js                                                       *)
(***************************************************************************)
\* a / (b + 1e-10): the epsilon is below the model's resolution and decides
\* the value only when b = 0; 0 / 1e-10 = 0, and a / 1e-10 for a # 0 is
\* larger than every other quantity of the model
Huge == Num(1000000000)

DivEps(a, b) ==
  IF IsNaN(a) \/ IsNaN(b) THEN NaN
  ELSE IF b[1] # 0 THEN Div(a, b)
  ELSE IF a[1] = 0 THEN Zero
  ELSE IF a[1] > 0 THEN Huge ELSE Neg(Huge)

\* array[i] in JavaScript: undefined (NaN in arithmetic) outside the array
At(array, i) == IF i + 1 <= Len(array) THEN array[i + 1] ELSE NaN

calculatePerfusionIndex(rawSignal, detrendedSignal) ==
  LET n   == Len(rawSignal)
      sum == SumTo(rawSignal, n)
      dc  == Div(sum, Num(n))
      squares  == [i \in 1..n |-> Mul(At(detrendedSignal, i - 1),
                                      At(detrendedSignal, i - 1))]
      variance == Div(SumTo(squares, n), Num(n))
      acAmp    == MathSqrt(variance)
      pi  == IF DivEps(acAmp, dc) \in {Huge, Neg(Huge)} THEN DivEps(acAmp, dc)
             ELSE Mul(DivEps(acAmp, dc), Num(100))
  IN  [pi |-> pi, variance |-> variance]

\* calculateStability(currentVariance) on a processor whose previousVariance
\* is prev: the returned ratio and the new previousVariance
calculateStability(currentVariance, prev) ==
  IF EQ(prev, Zero)
    THEN [ratio |-> One, previousVariance |-> currentVariance]
    ELSE [ratio |-> DivEps(MathMin(currentVariance, prev),
                           MathMax(currentVariance, prev)),
          previousVariance |-> currentVariance]

\* const heartRate = snrResult.peakFrequency * 60
HeartRateBpm(peakFrequency) == Mul(peakFrequency, Num(60))

\* let ibi = 0; if (heartRate > 0 && heartRate < 300) ibi = round(60000 / heartRate)
IbiOfUnguarded(heartRate) ==
  IF GT(heartRate, Zero)
    THEN MathRound(Div(Num(60000), heartRate))
    ELSE Zero

IbiOf(heartRate) ==
  IF GT(heartRate, Zero) /\ LT(heartRate, Num(300))
    THEN MathRound(Div(Num(60000), heartRate))
    ELSE Zero

\* if (snrResult.snr_dB >= 5) this.qualityFrameCount += this.windowLength
UpdateCountByOne(snr_dB, count, wl) ==
  IF GE(snr_dB, Num(5)) THEN count + 1 ELSE count

UpdateCount(snr_dB, count, wl) ==
  IF GE(snr_dB, Num(5)) THEN count + wl ELSE count

\* process throws exactly when computeFFT, its first statement, throws; no
\* field of the processor has been assigned by then
processThrows(c) == ~FFTSizeOk(c.fftSize)

\* process(rawSignal, detrendedSignal) on a processor with configuration c
\* and state (prev, count): the returned record and the new state
process(rawSignal, detrendedSignal, c, prev, count) ==
  LET fftResult == computeFFT(detrendedSignal, c.fftSize, c.sampleRate)
      snrResult == calculateSNRFromPSD(fftResult.psd, fftResult.freqResolution,
                                       c.cardiacBandLow, c.cardiacBandHigh)
      heartRate == HeartRateBpm(snrResult.peakFrequency)
      ibi       == IbiOf(heartRate)
      piResult  == calculatePerfusionIndex(rawSignal, detrendedSignal)
      stab      == calculateStability(piResult.variance, prev)
      qualityStatus   == getQualityStatus(snrResult.snr_dB)
      guidanceMessage == generateGuidance(snrResult.snr_dB, piResult.pi, stab.ratio)
      newCount  == UpdateCount(snrResult.snr_dB, count, c.windowLength)
  IN  [metrics |->
         [snr_dB            |-> snrResult.snr_dB,
          perfusionIndex    |-> piResult.pi,
          heartRate         |-> MathRound(heartRate),
          ibi               |-> ibi,
          signalStability   |-> stab.ratio,
          qualityStatus     |-> qualityStatus,
          guidanceMessage   |-> guidanceMessage,
          qualityFrameCount |-> newCount,
          signalPower       |-> snrResult.signalPower,
          noisePower        |-> snrResult.noisePower,
          peakFrequency     |-> snrResult.peakFrequency],
       previousVariance  |-> stab.previousVariance,
       qualityFrameCount |-> newCount]

\* reset() on a processor with state (prev, count): the new state
resetKeepsCount(prev, count) == [previousVariance |-> Zero, qualityFrameCount |-> count]

reset(prev, count) == [previousVariance |-> Zero, qualityFrameCount |-> 0]

(***************************************************************************)
(* State                                                                    *)
(***************************************************************************)
VARIABLES
  \* options.signal, copied into the SignalProcessor by its constructor
  windowLength, sampleRate, cardiacBandLow, cardiacBandHigh, fftSize,
  \* SignalProcessor state
  previousVariance, qualityFrameCount,
  \* PPGMonitor state
  acdc, ac, frameCount, nFrame, isSignal, acFrame, acWindow, currentMetrics,
  stream, animationId,
  \* environment of the monitor: start() calls awaiting the camera, start()
  \* calls made so far, requestAnimationFrame callbacks pending, frames
  \* whose value left the base level
  starting, started, pending, pulses,
  \* start() calls that hold a camera stream and await the video metadata,
  \* camera streams obtained and not stopped, and whether stop() has
  \* returned since the last call of start()
  loading, held, stopped,
  \* the last windowLength samples ingested, oldest first, and the number of
  \* window passes that ended in a thrown error
  recent, failed,
  \* the callbacks invoked by the last step, in order, with their payloads
  calls,
  \* the evaluated window boundaries so far, as runs of equal phase
  runs,
  \* direct use of a SignalProcessor: the last operation, its arguments, its
  \* result and the processor state before it
  lastOp, rawIn, detIn, result, prior, nCalls,
  \* direct use of the helpers: arguments and results
  snrIn, piIn, stabilityIn, statusOut, guidanceOut,
  \* direct use of calculateSNRFromPSD: the PSD, the band with the frequency
  \* resolution, and the result
  psdIn, bandIn, snrOut,
  \* direct use of detrend: the argument y and the returned array
  yIn, detrended

cfgVars == <<windowLength, sampleRate, cardiacBandLow, cardiacBandHigh, fftSize>>

procVars == <<previousVariance, qualityFrameCount>>

bufVars == <<acdc, ac, frameCount, nFrame, isSignal, acFrame, acWindow,
             currentMetrics, runs, recent, failed>>

lifeVars == <<stream, animationId, starting, started, pending, pulses,
              loading, held, stopped>>

useVars == <<lastOp, rawIn, detIn, result, prior, nCalls>>

helperVars == <<snrIn, piIn, stabilityIn, statusOut, guidanceOut,
               psdIn, bandIn, snrOut, yIn, detrended>>

vars == <<cfgVars, procVars, bufVars, lifeVars, calls, useVars, helperVars>>

cfg == [windowLength |-> windowLength, sampleRate |-> sampleRate,
        cardiacBandLow |-> cardiacBandLow, cardiacBandHigh |-> cardiacBandHigh,
        fftSize |-> fftSize]

(***************************************************************************)
(* Bounds                                                                   *)
(***************************************************************************)
\* animation ticks of the frame loop
MaxFrame == 310

\* animation ticks of the long run with a steady signal
MaxFrameLong == 610

\* start() calls
MaxStarts == 1

\* start() calls and animation ticks when the lifecycle is explored
MaxStartsLife == 2

MaxFrameLife == 106

\* process() calls on a directly used SignalProcessor
MaxCalls == 2

\* frames whose value leaves the base level
MaxPulses == 1

\* animation ticks of the frame loop under an arbitrary configuration
MaxFrameCfg == 205

\* window lengths and frame values of the frame loop
WindowLengths == {2, 3}

BaseSample == Rat(1, 2)

Samples == {BaseSample, One}

(***************************************************************************)
(* PPGMonitor.js                                                            *)
(***************************************************************************)
\* const DURATION = 100: initial frames to skip
DURATION == 100

\* if (this.nFrame > DURATION): the frame is handled, not skipped
AfterWarmUpFromDuration(n) == n >= DURATION

AfterWarmUp(n) == n > DURATION

\* windows per duty-cycle phase: Math.floor(windowNum / 100) % 2 === 0
PhaseWindows == 100

\* the default options of createDefaultOptions
DefaultSampleRate == Num(60)

DefaultCardiacBandLow == Rat(3, 4)

DefaultCardiacBandHigh == Num(4)

\* state after new PPGMonitor(null, {signal: {windowLength, fftSize}, ...})
\* with every callback set
Constructed(wl, sr, fs) ==
  /\ windowLength = wl
  /\ sampleRate = sr
  /\ cardiacBandLow = DefaultCardiacBandLow
  /\ cardiacBandHigh = DefaultCardiacBandHigh
  /\ fftSize = fs
  /\ previousVariance = Zero
  /\ qualityFrameCount = 0
  /\ acdc = Fill(wl, Rat(1, 2))
  /\ ac = Fill(wl, Rat(1, 2))
  /\ frameCount = 0
  /\ nFrame = 0
  /\ isSignal = 0
  /\ acFrame = Rat(8, 1000)
  /\ acWindow = Rat(8, 1000)
  /\ currentMetrics = [snr_dB |-> Zero, perfusionIndex |-> Zero,
                       heartRate |-> Zero, ibi |-> Zero,
                       qualityStatus |-> "Initializing",
                       guidanceMessage |-> "Press Measure to start"]
  /\ stream = FALSE
  /\ animationId = FALSE
  /\ starting = 0
  /\ started = 0
  /\ pending = 0
  /\ pulses = 0
  /\ loading = 0
  /\ held = 0
  /\ stopped = FALSE
  /\ calls = << >>
  /\ runs = << >>
  /\ recent = << >>
  /\ failed = 0

\* no SignalProcessor operation and no helper call made
Unused ==
  /\ lastOp = "new"
  /\ rawIn = << >>
  /\ detIn = << >>
  /\ result = [qualityStatus |-> "none"]
  /\ prior = [previousVariance |-> Zero, qualityFrameCount |-> 0,
              op |-> "none", cfg |-> cfg]
  /\ nCalls = 0
  /\ snrIn = Zero
  /\ piIn = Zero
  /\ stabilityIn = Zero
  /\ statusOut = "none"
  /\ guidanceOut = "none"
  /\ psdIn = << >>
  /\ bandIn = [low |-> DefaultCardiacBandLow, high |-> DefaultCardiacBandHigh,
               freqResolution |-> One]
  /\ snrOut = [snr_dB |-> "none"]
  /\ yIn = << >>
  /\ detrended = [called |-> FALSE, value |-> << >>]

\* nFrame % windowLength === 0
IsBoundary(n, wl) == n % wl = 0

\* Math.floor(windowNum / 100) % 2 === 0
IsActiveWindowOdd(windowNum) == (windowNum \div PhaseWindows) % 2 = 1

IsActiveWindowShort(windowNum) == (windowNum \div (PhaseWindows \div 2)) % 2 = 0

IsActiveWindow(windowNum) == (windowNum \div PhaseWindows) % 2 = 0

\* this.ac[this.nFrame % windowLength], read from the AC window newAc
AcSampleNext(newAc, n, wl) == newAc[((n + 1) % wl) + 1]

AcSample(newAc, n, wl) == newAc[(n % wl) + 1]

\* the runs of evaluated boundaries, extended by a boundary of phase ph
ExtendRuns(rs, ph) ==
  IF rs # << >> /\ rs[Len(rs)].phase = ph
    THEN [rs EXCEPT ![Len(rs)].len = @ + 1]
    ELSE Append(rs, [phase |-> ph, len |-> 1])

\* if (this.options.onQualityUpdate) this.options.onQualityUpdate(metrics),
\* inside the branch of an Active boundary
QualityUpdateAlways(active, metrics) ==
  <<[name |-> "onQualityUpdate", metrics |-> metrics]>>

QualityUpdate(active, metrics) ==
  IF active THEN <<[name |-> "onQualityUpdate", metrics |-> metrics]>>
  ELSE << >>

\* the samples ingested so far, kept to the last wl, after one more
Ingest(rs, xMean, wl) ==
  LET all == Append(rs, xMean)
  IN  IF Len(all) > wl THEN SubSeq(all, Len(all) - wl + 1, Len(all)) ELSE all

\* new Float32Array(windowLength).fill(this.acWindow)
HoldWindowPlaceholder(wl, mean) == Fill(wl, Rat(8, 1000))

HoldWindow(wl, mean) == Fill(wl, mean)

\* the pass of the frame about to be handled throws: the frame is an Active
\* boundary and process() throws
PassThrows ==
  /\ AfterWarmUp(nFrame)
  /\ IsBoundary(nFrame, windowLength)
  /\ IsActiveWindow(nFrame \div windowLength)
  /\ processThrows(cfg)

\* computeFrame() up to the throw of process(): the sample is stored, the
\* phase flag and the AC window are assigned; nothing after line 210 runs,
\* neither nFrame++ nor requestAnimationFrame.  caught are the callbacks the
\* caller's catch block invokes.
FrameThrow(xMean, caught) ==
  LET buf == [acdc EXCEPT ![(nFrame % windowLength) + 1] = xMean]
  IN  \E detrendedArray \in {detrend(buf)} :
        /\ acdc' = buf
        /\ isSignal' = 1
        /\ ac' = detrendedArray
        /\ acWindow' = windowMean(detrendedArray)
        /\ recent' = Ingest(recent, xMean, windowLength)
        /\ failed' = failed + 1
        /\ calls' = caught
        /\ UNCHANGED <<currentMetrics, previousVariance, qualityFrameCount,
                       acFrame, frameCount, runs, nFrame, animationId>>

\* the assignments of one processed frame, given the AC window, metrics and
\* processor state left by its boundary branch; after are the callbacks the
\* caller invokes once computeFrame() has returned
FrameUpdate(xMean, buf, boundary, active, newAc, newAcWindow, newMetrics, newPrev, newCount, after) ==
  LET sample == AcSample(newAc, nFrame, windowLength)
      newSignal == IF active THEN 1 ELSE IF boundary THEN 0 ELSE isSignal
  IN  /\ acdc' = buf
      /\ ac' = newAc
      /\ acWindow' = newAcWindow
      /\ isSignal' = newSignal
      /\ currentMetrics' = newMetrics
      /\ previousVariance' = newPrev
      /\ qualityFrameCount' = newCount
      /\ acFrame' = sample
      /\ calls' =
           QualityUpdate(active, newMetrics)
           \o <<[name |-> "onSignalUpdate", value |-> sample,
                 isProcessing |-> (newSignal = 1)],
                [name |-> "onFrame", frameCount |-> frameCount,
                 xMean |-> xMean, acFrame |-> sample]>>
           \o after
      /\ frameCount' = frameCount + 1
      /\ runs' = IF boundary
                   THEN ExtendRuns(runs, IF active THEN "Active" ELSE "Hold")
                   ELSE runs
      /\ recent' = Ingest(recent, xMean, windowLength)
      /\ failed' = failed

\* one call of computeFrame(); xMean is the inverted normalised red mean of
\* the frame drawn from the video, caught the callbacks of the caller's
\* catch block, after the callbacks the caller invokes when the call returns
computeFrame(xMean, caught, after) ==
  IF PassThrows
    THEN FrameThrow(xMean, caught)
    ELSE /\ IF AfterWarmUp(nFrame)
              THEN LET wl == windowLength
                       buf == [acdc EXCEPT ![(nFrame % wl) + 1] = xMean]
                       boundary == IsBoundary(nFrame, wl)
                       windowNum == nFrame \div wl
                   IN  IF boundary /\ IsActiveWindow(windowNum)
                         THEN \E detrendedArray \in {detrend(buf)} :
                              \E r \in {process(buf, detrendedArray, cfg,
                                                previousVariance, qualityFrameCount)} :
                                FrameUpdate(xMean, buf, TRUE, TRUE, detrendedArray,
                                            windowMean(detrendedArray), r.metrics,
                                            r.previousVariance, r.qualityFrameCount,
                                            after)
                       ELSE IF boundary
                         THEN FrameUpdate(xMean, buf, TRUE, FALSE,
                                          HoldWindow(wl, acWindow), acWindow,
                                          currentMetrics, previousVariance,
                                          qualityFrameCount, after)
                       ELSE FrameUpdate(xMean, buf, FALSE, FALSE, ac, acWindow,
                                        currentMetrics, previousVariance,
                                        qualityFrameCount, after)
              ELSE /\ UNCHANGED <<acdc, ac, acWindow, isSignal, currentMetrics,
                                  previousVariance, qualityFrameCount, acFrame,
                                  frameCount, runs, recent, failed>>
                   /\ calls' = after
         /\ nFrame' = nFrame + 1
         /\ animationId' = TRUE

\* the values the next frame can have: the signal leaves its base level in
\* at most maxPulses frames
FrameValues(maxPulses) ==
  IF nFrame <= DURATION THEN {Zero}
  ELSE IF pulses < maxPulses THEN Samples
  ELSE {BaseSample}

\* start() up to its first await: the camera is requested
StartCall(maxStarts) ==
  /\ started < maxStarts
  /\ started' = started + 1
  /\ starting' = starting + 1
  /\ stopped' = FALSE
  /\ calls' = << >>
  /\ UNCHANGED <<cfgVars, procVars, bufVars, stream, animationId, pending,
                 pulses, loading, held, useVars, helperVars>>

\* start() fails (camera refused): onError, and the error is rethrown
StartFail ==
  /\ starting > 0
  /\ starting' = starting - 1
  /\ calls' = <<[name |-> "onError"]>>
  /\ UNCHANGED <<cfgVars, procVars, bufVars, stream, animationId, started,
                 pending, pulses, loading, held, stopped, useVars, helperVars>>

\* start() when getUserMedia resolves: this.stream holds the camera stream;
\* the torch is set up and the call awaits the metadata of the video
StartCamera ==
  /\ starting > 0
  /\ starting' = starting - 1
  /\ loading' = loading + 1
  /\ stream' = TRUE
  /\ held' = held + 1
  /\ calls' = << >>
  /\ UNCHANGED <<cfgVars, procVars, bufVars, animationId, started, pending,
                 pulses, stopped, useVars, helperVars>>

\* start() after the metadata has loaded: computeFrame() is called once and
\* requests the next animation frame, then onReady; when computeFrame()
\* throws, the catch block calls onError and rethrows
StartRun(maxPulses, maxFrame) ==
  /\ loading > 0
  /\ nFrame < maxFrame
  /\ loading' = loading - 1
  /\ pending' = IF PassThrows THEN pending ELSE pending + 1
  /\ \E xMean \in FrameValues(maxPulses) :
       /\ computeFrame(xMean, <<[name |-> "onError"]>>, <<[name |-> "onReady"]>>)
       /\ pulses' = IF nFrame > DURATION /\ xMean # BaseSample
                      THEN pulses + 1 ELSE pulses
  /\ UNCHANGED <<cfgVars, stream, starting, started, held, stopped, useVars,
                 helperVars>>

\* an animation frame callback runs computeFrame(); when it throws, the
\* error is uncaught and no further callback is requested
Tick(maxPulses, maxFrame) ==
  /\ pending > 0
  /\ nFrame < maxFrame
  /\ pending' = IF PassThrows THEN pending - 1 ELSE pending
  /\ \E xMean \in FrameValues(maxPulses) :
       /\ computeFrame(xMean, << >>, << >>)
       /\ pulses' = IF nFrame > DURATION /\ xMean # BaseSample
                      THEN pulses + 1 ELSE pulses
  /\ UNCHANGED <<cfgVars, stream, starting, started, loading, held, stopped,
                 useVars, helperVars>>

\* stop(): cancels the animation frame request animationId (the request made
\* last, pending unless its callback has run and thrown), stops the stream
\* this.stream and clears the source of the video, so that the metadata
\* awaited by a start() call never loads
StopResets ==
  /\ pending' = IF animationId /\ pending > 0 THEN pending - 1 ELSE pending
  /\ animationId' = FALSE
  /\ held' = IF stream THEN held - 1 ELSE held
  /\ stream' = FALSE
  /\ loading' = 0
  /\ stopped' = TRUE
  /\ calls' = << >>
  /\ previousVariance' = Zero
  /\ qualityFrameCount' = 0
  /\ UNCHANGED <<cfgVars, bufVars, starting, started, pulses, useVars,
                 helperVars>>

Stop ==
  /\ pending' = IF animationId /\ pending > 0 THEN pending - 1 ELSE pending
  /\ animationId' = FALSE
  /\ held' = IF stream THEN held - 1 ELSE held
  /\ stream' = FALSE
  /\ loading' = 0
  /\ stopped' = TRUE
  /\ calls' = << >>
  /\ UNCHANGED <<cfgVars, procVars, bufVars, starting, started, pulses,
                 useVars, helperVars>>

InitMonitor ==
  /\ \E wl \in WindowLengths : Constructed(wl, DefaultSampleRate, 4)
  /\ Unused

Next ==
  \/ StartCall(MaxStarts)
  \/ StartFail
  \/ StartCamera
  \/ StartRun(MaxPulses, MaxFrame)
  \/ Tick(MaxPulses, MaxFrame)
  \/ Stop

Spec == InitMonitor /\ [][Next]_vars


\* the frame loop over a long run with a steady signal
NextLong ==
  \/ StartCall(MaxStarts)
  \/ StartFail
  \/ StartCamera
  \/ StartRun(0, MaxFrameLong)
  \/ Tick(0, MaxFrameLong)
  \/ Stop

SpecLong == InitMonitor /\ [][NextLong]_vars

\* the lifecycle of the monitor: several start() calls, their asynchronous
\* steps, stop() and the first frames after the warm-up
NextLife ==
  \/ StartCall(MaxStartsLife)
  \/ StartFail
  \/ StartCamera
  \/ StartRun(MaxPulses, MaxFrameLife)
  \/ Tick(MaxPulses, MaxFrameLife)
  \/ Stop

SpecLife == InitMonitor /\ [][NextLife]_vars

\* getMetrics(): a copy of this.currentMetrics
getMetrics == currentMetrics

\* getSignalQuality(): this.currentMetrics.qualityStatus
getSignalQuality == currentMetrics.qualityStatus

(***************************************************************************)
(* The frame loop under configurations which the constructors accept        *)
(* without any validation: createDefaultOptions merges the user's signal    *)
(* options over the defaults, SignalProcessor copies them.                  *)
(***************************************************************************)
CfgWindowLengths == {1, 2}

CfgFftSizes == {3, 4}

InitCfg ==
  /\ \E wl \in CfgWindowLengths, fs \in CfgFftSizes :
       Constructed(wl, DefaultSampleRate, fs)
  /\ Unused

NextCfg ==
  \/ StartCall(MaxStarts)
  \/ StartFail
  \/ StartCamera
  \/ StartRun(MaxPulses, MaxFrameCfg)
  \/ Tick(MaxPulses, MaxFrameCfg)
  \/ Stop

SpecCfg == InitCfg /\ [][NextCfg]_vars

(***************************************************************************)
(* A SignalProcessor used directly (exported by index.js)                   *)
(***************************************************************************)
Ints(s) == [i \in 1..Len(s) |-> Num(s[i])]

\* arguments of process(rawSignal, detrendedSignal)
ProcInputs ==
  { [raw |-> Fill(3, Rat(1, 2)), det |-> Ints(<<0, 0, 0>>)],
    [raw |-> Fill(3, Zero),      det |-> Ints(<<0, 0, 0>>)],
    [raw |-> Fill(3, Rat(1, 2)), det |-> Ints(<<1, 1, 1>>)],
    [raw |-> Fill(3, Rat(1, 2)), det |-> Ints(<<2, 2, 2>>)],
    [raw |-> Fill(3, Rat(1, 2)), det |-> Ints(<<1, 0, 0>>)],
    [raw |-> Fill(3, Num(10)),   det |-> Ints(<<1, 1, 0>>)],
    [raw |-> Fill(3, Num(200)),  det |-> Ints(<<1, 1, 0>>)],
    [raw |-> Fill(3, Num(200)),  det |-> Ints(<<1, 0, 0>>)],
    [raw |-> Fill(4, Rat(1, 2)), det |-> Ints(<<1, 1, 1, 0>>)],
    [raw |-> <<NaN, Rat(1, 2), Rat(1, 2)>>, det |-> <<NaN, NaN, NaN>>] }

ProcSampleRates == {DefaultSampleRate, Rat(47, 5)}

ProcFftSizes == {4, 8}

InitProcessor ==
  /\ \E wl \in WindowLengths, sr \in ProcSampleRates, fs \in ProcFftSizes :
       Constructed(wl, sr, fs)
  /\ Unused

\* signalProcessor.process(rawSignal, detrendedSignal)
Process ==
  /\ nCalls < MaxCalls
  /\ \E in \in ProcInputs :
     \E r \in {process(in.raw, in.det, cfg, previousVariance, qualityFrameCount)} :
       /\ result' = r.metrics
       /\ previousVariance' = r.previousVariance
       /\ qualityFrameCount' = r.qualityFrameCount
       /\ rawIn' = in.raw
       /\ detIn' = in.det
  /\ prior' = [previousVariance |-> previousVariance,
               qualityFrameCount |-> qualityFrameCount,
               op |-> lastOp, cfg |-> cfg]
  /\ lastOp' = "process"
  /\ nCalls' = nCalls + 1
  /\ UNCHANGED <<cfgVars, bufVars, lifeVars, calls, helperVars>>

\* signalProcessor.reset()
Reset ==
  /\ \E r \in {reset(previousVariance, qualityFrameCount)} :
       /\ previousVariance' = r.previousVariance
       /\ qualityFrameCount' = r.qualityFrameCount
  /\ prior' = [previousVariance |-> previousVariance,
               qualityFrameCount |-> qualityFrameCount,
               op |-> lastOp, cfg |-> cfg]
  /\ lastOp' = "reset"
  /\ UNCHANGED <<cfgVars, bufVars, lifeVars, calls, rawIn, detIn, result,
                 nCalls, helperVars>>

NextProc ==
  \/ Process
  \/ Reset

SpecProc == InitProcessor /\ [][NextProc]_vars

(***************************************************************************)
(* The helpers called directly                                              *)
(***************************************************************************)
SnrValues == {Rat(-1, 1000), Zero, Rat(4999, 1000), Num(5), Rat(9999, 1000),
              Num(10), Num(12), Num(-3), NaN}

PiValues == {Zero, Rat(29, 100), Rat(3, 10), Rat(99, 100), One, Num(15),
             Num(16), NaN}

StabilityValues == {Zero, Rat(49, 100), Rat(1, 2), One, NaN}

InitHelpers ==
  /\ Constructed(2, DefaultSampleRate, 4)
  /\ lastOp = "new"
  /\ rawIn = << >>
  /\ detIn = << >>
  /\ result = [qualityStatus |-> "none"]
  /\ prior = [previousVariance |-> Zero, qualityFrameCount |-> 0,
              op |-> "none", cfg |-> cfg]
  /\ nCalls = 0
  /\ snrIn \in SnrValues
  /\ piIn \in PiValues
  /\ stabilityIn \in StabilityValues
  /\ statusOut = "none"
  /\ guidanceOut = "none"
  /\ psdIn = << >>
  /\ bandIn = [low |-> DefaultCardiacBandLow, high |-> DefaultCardiacBandHigh,
               freqResolution |-> One]
  /\ snrOut = [snr_dB |-> "none"]
  /\ yIn = << >>
  /\ detrended = [called |-> FALSE, value |-> << >>]

\* getQualityStatus(snr)
CallGetQualityStatus ==
  /\ statusOut' = getQualityStatus(snrIn)
  /\ UNCHANGED <<cfgVars, procVars, bufVars, lifeVars, calls, useVars,
                 snrIn, piIn, stabilityIn, guidanceOut, psdIn, bandIn, snrOut,
                 yIn, detrended>>

\* generateGuidance(snr, pi, stability)
CallGenerateGuidance ==
  /\ guidanceOut' = generateGuidance(snrIn, piIn, stabilityIn)
  /\ UNCHANGED <<cfgVars, procVars, bufVars, lifeVars, calls, useVars,
                 snrIn, piIn, stabilityIn, statusOut, psdIn, bandIn, snrOut,
                 yIn, detrended>>

NextHelpers ==
  \/ CallGetQualityStatus
  \/ CallGenerateGuidance

SpecHelpers == InitHelpers /\ [][NextHelpers]_vars

(***************************************************************************)
(* calculateSNRFromPSD called directly (exported by index.js)               *)
(***************************************************************************)
\* power spectra: psd[0] is the DC bin
PsdValues ==
  { Ints(<<5, 1, 2, 3>>), Ints(<<0, 0, 0, 0>>), Ints(<<9, 4, 4, 1>>),
    Ints(<<1, 0, 7, 0>>), Ints(<<2, 3>>), Ints(<<7>>),
    Ints(<<3, 1, 0, 2, 6, 0, 1, 5>>) }

\* bands in Hz: inside the spectrum, partly outside, wholly above, wholly
\* below
BandValues ==
  { [low |-> Rat(3, 4), high |-> Num(4)], [low |-> Num(2), high |-> Num(4)],
    [low |-> Num(1), high |-> Num(2)],    [low |-> Num(10), high |-> Num(40)],
    [low |-> Num(40), high |-> Num(50)],  [low |-> Zero, high |-> Zero],
    [low |-> Zero, high |-> Rat(1, 4)] }

FreqResolutions == {One, Rat(15, 2)}

InitSnr ==
  /\ Constructed(2, DefaultSampleRate, 4)
  /\ lastOp = "new"
  /\ rawIn = << >>
  /\ detIn = << >>
  /\ result = [qualityStatus |-> "none"]
  /\ prior = [previousVariance |-> Zero, qualityFrameCount |-> 0,
              op |-> "none", cfg |-> cfg]
  /\ nCalls = 0
  /\ snrIn = Zero
  /\ piIn = Zero
  /\ stabilityIn = Zero
  /\ statusOut = "none"
  /\ guidanceOut = "none"
  /\ psdIn \in PsdValues
  /\ \E b \in BandValues, fr \in FreqResolutions :
       bandIn = [low |-> b.low, high |-> b.high, freqResolution |-> fr]
  /\ snrOut = [snr_dB |-> "none"]
  /\ yIn = << >>
  /\ detrended = [called |-> FALSE, value |-> << >>]

\* calculateSNRFromPSD(psd, freqResolution, cardiacBandLow, cardiacBandHigh)
CallCalculateSNR ==
  /\ snrOut' = calculateSNRFromPSD(psdIn, bandIn.freqResolution, bandIn.low,
                                   bandIn.high)
  /\ UNCHANGED <<cfgVars, procVars, bufVars, lifeVars, calls, useVars,
                 snrIn, piIn, stabilityIn, statusOut, guidanceOut, psdIn,
                 bandIn, yIn, detrended>>

NextSnr == CallCalculateSNR

SpecSnr == InitSnr /\ [][NextSnr]_vars

(***************************************************************************)
(* detrend called directly (exported by index.js)                           *)
(***************************************************************************)
\* longest array passed to detrend
MaxLen == 5

Intercepts == {Zero, Rat(1, 2), Num(-1), Num(7)}

Slopes == {Zero, One, Rat(-1, 2), Num(3)}

\* the array y_i = a + b * i, i = 0 .. n - 1
Linear(a, b, n) == [i \in 1..n |-> Add(a, Mul(b, Num(i - 1)))]

\* arguments of detrend: the linear arrays of 2 .. MaxLen samples, arrays
\* that are not linear, arrays of fewer than 2 samples, an array with NaN
DetrendInputs ==
  { Linear(a, b, n) : a \in Intercepts, b \in Slopes, n \in 2..MaxLen }
    \cup { Ints(<<1, 0, 0>>), Ints(<<0, 1, 0, 1>>), Ints(<<2, 0, 1, 5, 3>>),
           <<Rat(1, 2), One, Rat(1, 2)>>, <<Rat(1, 2)>>, << >>,
           <<NaN, One, Num(2)>> }

InitDetrend ==
  /\ Constructed(2, DefaultSampleRate, 4)
  /\ lastOp = "new"
  /\ rawIn = << >>
  /\ detIn = << >>
  /\ result = [qualityStatus |-> "none"]
  /\ prior = [previousVariance |-> Zero, qualityFrameCount |-> 0,
              op |-> "none", cfg |-> cfg]
  /\ nCalls = 0
  /\ snrIn = Zero
  /\ piIn = Zero
  /\ stabilityIn = Zero
  /\ statusOut = "none"
  /\ guidanceOut = "none"
  /\ psdIn = << >>
  /\ bandIn = [low |-> DefaultCardiacBandLow, high |-> DefaultCardiacBandHigh,
               freqResolution |-> One]
  /\ snrOut = [snr_dB |-> "none"]
  /\ yIn \in DetrendInputs
  /\ detrended = [called |-> FALSE, value |-> << >>]

\* detrend(y)
CallDetrend ==
  /\ detrended' = [called |-> TRUE, value |-> detrend(yIn)]
  /\ UNCHANGED <<cfgVars, procVars, bufVars, lifeVars, calls, useVars,
                 snrIn, piIn, stabilityIn, statusOut, guidanceOut, psdIn,
                 bandIn, snrOut, yIn>>

NextDetrend == CallDetrend

SpecDetrend == InitDetrend /\ [][NextDetrend]_vars


(***************************************************************************)
(* Properties                                                               *)
(***************************************************************************)

\* C1: in every step that handles a frame, onQualityUpdate is invoked exactly
\* once, with the record that becomes currentMetrics and carries the
\* processor's counter, if and only if the frame is a window boundary in the
\* Active phase; in every other step (Hold boundary, non-boundary frame,
\* skipped tick, start, stop) onQualityUpdate is not invoked and
\* currentMetrics keeps its value.
C1_MetricsOnlyOnActive ==
  [][LET f == nFrame
         handled == nFrame' = nFrame + 1 /\ f > 100
         activeBoundary == /\ handled
                           /\ f % windowLength = 0
                           /\ ((f \div windowLength) \div 100) % 2 = 0
         updates == SelectSeq(calls', LAMBDA c : c.name = "onQualityUpdate")
     IN  IF activeBoundary
           THEN /\ Len(updates) = 1
                /\ updates[1].metrics = currentMetrics'
                /\ currentMetrics'.qualityFrameCount = qualityFrameCount'
                /\ currentMetrics'.qualityStatus \in {"Excellent", "Good", "Fair", "Poor"}
           ELSE /\ Len(updates) = 0
                /\ currentMetrics' = currentMetrics]_vars

\* C1 witness: a Hold boundary has just been handled (signal and frame
\* callbacks only) and getMetrics() still returns the last Active record,
\* which counted a good window.
C1_Witness ==
  /\ nFrame - 1 > 100
  /\ (nFrame - 1) % windowLength = 0
  /\ (((nFrame - 1) \div windowLength) \div 100) % 2 = 1
  /\ Len(calls) = 2
  /\ calls[1].name = "onSignalUpdate"
  /\ currentMetrics.qualityStatus = "Excellent"
  /\ currentMetrics.qualityFrameCount = windowLength

\* C2: the phase flag left by the last evaluated window boundary is a
\* function of that boundary's window index alone: Active (isSignal = 1) when
\* floor(windowIndex / 100) mod 2 = 0 and Hold (isSignal = 0) otherwise,
\* with windowIndex = nFrame / windowLength at the boundary.
C2_PhaseFromWindowIndex ==
  LET f == nFrame - 1
      windowIndex == f \div windowLength
      b == windowIndex * windowLength
  IN  IF b > 100
        THEN isSignal = (IF (windowIndex \div 100) % 2 = 0 THEN 1 ELSE 0)
        ELSE isSignal = 0

\* C2 witness: the first Hold boundary (window index 100) has just been
\* evaluated after Active windows that produced metrics.
C2_Witness ==
  /\ nFrame - 1 = 100 * windowLength
  /\ calls # << >>
  /\ isSignal = 0
  /\ currentMetrics.qualityStatus # "Initializing"
  /\ pulses > 0

\* C3 as stated: the evaluated boundaries form runs of exactly 100 Active
\* boundaries alternating with runs of exactly 100 Hold boundaries, beginning
\* with an Active run.
C3_RunsOfHundred ==
  /\ \A i \in 1..Len(runs) :
       runs[i].phase = (IF i % 2 = 1 THEN "Active" ELSE "Hold")
  /\ \A i \in 1..(Len(runs) - 1) : runs[i].len = 100
  /\ \A i \in 1..Len(runs) : runs[i].len <= 100

\* C3 amended: the evaluated boundaries form alternating runs beginning with
\* an Active run; every run after the first has exactly 100 boundaries, and
\* the first Active run has 99 - floor(100 / windowLength) boundaries, since
\* the boundaries with nFrame <= 100 are skipped.
C3_RunsAfterWarmup ==
  /\ \A i \in 1..Len(runs) :
       runs[i].phase = (IF i % 2 = 1 THEN "Active" ELSE "Hold")
  /\ \A i \in 1..(Len(runs) - 1) :
       runs[i].len = (IF i = 1 THEN 99 - (100 \div windowLength) ELSE 100)
  /\ \A i \in 1..Len(runs) :
       runs[i].len <= (IF i = 1 THEN 99 - (100 \div windowLength) ELSE 100)

\* C3 witness: a short first Active run and a Hold run of 100 are complete
\* and the next Active run has begun.
C3_Witness ==
  /\ Len(runs) = 3
  /\ runs[1].len < 100
  /\ runs[2] = [phase |-> "Hold", len |-> 100]
  /\ runs[3].phase = "Active"

\* C4: qualityFrameCount is always a multiple of windowLength; a process call
\* adds exactly windowLength when the window's snr_dB >= 5 and nothing
\* otherwise, so it never decreases the counter, and the returned record
\* carries the counter after the update.
C4_QualityFrameCount ==
  /\ qualityFrameCount % windowLength = 0
  /\ lastOp = "process" =>
       /\ qualityFrameCount =
            prior.qualityFrameCount
              + (IF GE(result.snr_dB, Num(5)) THEN windowLength ELSE 0)
       /\ qualityFrameCount >= prior.qualityFrameCount
       /\ result.qualityFrameCount = qualityFrameCount

\* C4 witness: a second good window has been processed.
C4_Witness ==
  /\ lastOp = "process"
  /\ prior.qualityFrameCount = windowLength
  /\ qualityFrameCount = 2 * windowLength
  /\ GE(result.snr_dB, Num(5))

\* C5: after reset() previousVariance and qualityFrameCount are 0 and the
\* configuration is what it was; the first process call after a reset, like
\* the first after construction, reports stability 1.0 and leaves the
\* window's variance in previousVariance.
C5_Reset ==
  /\ lastOp = "reset" =>
       /\ previousVariance = Zero
       /\ qualityFrameCount = 0
       /\ cfg = prior.cfg
  /\ (lastOp = "process" /\ prior.op \in {"reset", "new"}) =>
       /\ result.signalStability = One
       /\ previousVariance = calculatePerfusionIndex(rawIn, detIn).variance

\* C5 witness: reset() has run on a processor that had a non-zero variance
\* and a non-zero counter.
C5_Witness ==
  /\ lastOp = "reset"
  /\ prior.previousVariance \notin {Zero, NaN}
  /\ prior.qualityFrameCount > 0
  /\ previousVariance = Zero
  /\ qualityFrameCount = 0

C7_GuidanceOrder ==
  (guidanceOut # "none" /\ ~IsNaN(snrIn)) =>
    LET below(x, n, d) == ~IsNaN(x) /\ x[1] * d < n * x[2]
        above(x, n, d) == ~IsNaN(x) /\ x[1] * d > n * x[2]
        expected ==
          IF below(snrIn, 0, 1)
            THEN IF below(piIn, 3, 10) THEN "Cover camera completely with finger"
                 ELSE "Adjust finger placement"
          ELSE IF below(snrIn, 5, 1)
            THEN IF below(piIn, 1, 1) THEN "Press finger more firmly"
                 ELSE IF above(piIn, 15, 1) THEN "Reduce finger pressure slightly"
                 ELSE IF below(stabilityIn, 1, 2) THEN "Hold finger still"
                 ELSE "Adjusting... hold steady"
          ELSE IF below(snrIn, 10, 1) THEN "Good signal - hold steady"
          ELSE "Excellent signal!"
        band ==
          IF guidanceOut \in {"Cover camera completely with finger",
                              "Adjust finger placement"} THEN "Poor"
          ELSE IF guidanceOut = "Good signal - hold steady" THEN "Good"
          ELSE IF guidanceOut = "Excellent signal!" THEN "Excellent"
          ELSE "Fair"
    IN  /\ guidanceOut = expected
        /\ band = getQualityStatus(snrIn)

\* C7 witness: a Fair signal with acceptable perfusion and low stability got
\* the third message of the Fair band.
C7_Witness ==
  /\ snrIn = Rat(4999, 1000)
  /\ piIn = Num(15)
  /\ stabilityIn = Rat(49, 100)
  /\ guidanceOut = "Hold finger still"

\* C8: a processed window whose snr_dB is NaN yields the status Poor, a
\* guidance message that is neither the good-signal nor the excellent-signal
\* message, and leaves qualityFrameCount unchanged.
C8_NaNCoerced ==
  (lastOp = "process" /\ IsNaN(result.snr_dB)) =>
    /\ result.qualityStatus = "Poor"
    /\ result.guidanceMessage \notin {"Good signal - hold steady",
                                      "Excellent signal!"}
    /\ qualityFrameCount = prior.qualityFrameCount

\* C9 as stated: heartRate = round(peakFrequency * 60), and ibi =
\* round(60000 / heartRate) from the emitted heartRate when 0 < heartRate <
\* 300, else 0.
C9_IbiFromEmittedRate ==
  lastOp = "process" =>
    /\ result.heartRate = MathRound(Mul(result.peakFrequency, Num(60)))
    /\ result.ibi =
         (IF GT(result.heartRate, Zero) /\ LT(result.heartRate, Num(300))
            THEN MathRound(Div(Num(60000), result.heartRate))
            ELSE Zero)

\* C9 amended: heartRate = round(peakFrequency * 60), and ibi = round(60000 /
\* (peakFrequency * 60)), computed from the unrounded rate, when 0 <
\* peakFrequency * 60 < 300, else 0.
C9_IbiFromPeakFrequency ==
  lastOp = "process" =>
    LET rate == Mul(result.peakFrequency, Num(60))
    IN  /\ result.heartRate = MathRound(rate)
        /\ result.ibi =
             (IF GT(rate, Zero) /\ LT(rate, Num(300))
                THEN MathRound(Div(Num(60000), rate))
                ELSE Zero)

\* C9 witness: a peak at 1.175 Hz (70.5 BPM) is reported as 71 BPM with an
\* interval of 851 ms.
C9_Witness ==
  /\ lastOp = "process"
  /\ result.peakFrequency = Rat(47, 40)
  /\ result.heartRate = Num(71)
  /\ result.ibi = Num(851)

\* C10: after every handled frame acFrame is the current AC window at index
\* (frame index mod windowLength), read after the boundary update of that
\* frame, and it is the value delivered to onSignalUpdate and onFrame; while
\* no window boundary has been evaluated it is the fill value 0.5.
C10_AcFrame ==
  LET f == nFrame - 1
  IN  f > 100 =>
        /\ acFrame = ac[(f % windowLength) + 1]
        /\ runs = << >> => acFrame = Rat(1, 2)
        /\ calls # << >> =>
             \A i \in 1..Len(calls) :
               /\ calls[i].name = "onSignalUpdate" => calls[i].value = acFrame
               /\ calls[i].name = "onFrame" => calls[i].acFrame = acFrame

\* C10 witness: a non-boundary frame delivered a sample of a detrended
\* window that is neither the fill value nor zero.
C10_Witness ==
  /\ nFrame - 1 > 100
  /\ (nFrame - 1) % windowLength = 2
  /\ Len(calls) = 2
  /\ calls[2].acFrame = acFrame
  /\ acFrame \notin {Zero, Rat(1, 2)}

\* C11 as stated: a window pass that throws leaves previousVariance and
\* qualityFrameCount as they were, and the frame loop goes on: the frame is
\* counted and the next animation frame is requested, so that later frames
\* are ingested and later boundaries evaluated.
C11_FailureLocal ==
  [][failed' > failed =>
       /\ previousVariance' = previousVariance
       /\ qualityFrameCount' = qualityFrameCount
       /\ nFrame' = nFrame + 1
       /\ pending' > 0]_vars

\* C12 as stated: at an Active boundary of a window of fewer than 2 samples
\* detrend returns no value (the AC window is not assigned) and no later
\* stage runs: the processor state and the metrics keep their values and no
\* metrics are emitted.
C12_ShortWindowRejected ==
  [][(/\ windowLength < 2
      /\ nFrame > 100
      /\ nFrame % windowLength = 0
      /\ ((nFrame \div windowLength) \div 100) % 2 = 0
      /\ (nFrame' = nFrame + 1 \/ failed' > failed))
       => /\ ac' = ac
          /\ acWindow' = acWindow
          /\ previousVariance' = previousVariance
          /\ qualityFrameCount' = qualityFrameCount
          /\ currentMetrics' = currentMetrics
          /\ \A i \in 1..Len(calls') : calls'[i].name # "onQualityUpdate"]_vars

\* C13 as stated: a configuration whose fftSize is not a power of two >= 2
\* or whose windowLength is below 2 is rejected at construction, so no
\* window pass is ever started (completed or failed) with one.
C13_ConfigValidated ==
  (runs # << >> \/ failed > 0) =>
    /\ fftSize > 1
    /\ \E k \in 1..8 : fftSize = 2 ^ k
    /\ windowLength >= 2

\* C14 as stated: once stop() has returned and until start() is called
\* again, no step processes a frame, no onSignalUpdate, onFrame or
\* onQualityUpdate callback fires and no camera stream is held.
C14_StopStops ==
  [][(stopped /\ stopped') =>
       /\ nFrame' = nFrame
       /\ frameCount' = frameCount
       /\ \A i \in 1..Len(calls') :
            calls'[i].name \notin {"onSignalUpdate", "onFrame", "onQualityUpdate"}
       /\ held' = 0
       /\ ~stream']_vars

\* C15 as stated: in every reachable state getSignalQuality() is one of the
\* four statuses and equals the qualityStatus of getMetrics().
C15_QualityEnum ==
  /\ getSignalQuality \in {"Excellent", "Good", "Fair", "Poor"}
  /\ getSignalQuality = getMetrics.qualityStatus

\* C16: a processed window whose detrended signal is all zero (raw samples
\* being numbers) yields snr_dB 0, perfusionIndex 0, heartRate 0, ibi 0, the
\* status Fair and the low-perfusion guidance, and leaves qualityFrameCount
\* unchanged.
C16_NoVariation ==
  (/\ lastOp = "process"
   /\ \A i \in 1..Len(detIn) : detIn[i] = Zero
   /\ \A i \in 1..Len(rawIn) : ~IsNaN(rawIn[i])) =>
    /\ result.snr_dB = Zero
    /\ result.perfusionIndex = Zero
    /\ result.heartRate = Zero
    /\ result.ibi = Zero
    /\ result.qualityStatus = "Fair"
    /\ result.guidanceMessage = "Press finger more firmly"
    /\ qualityFrameCount = prior.qualityFrameCount
    /\ result.qualityFrameCount = prior.qualityFrameCount

\* C16 witness: an all-zero window has been processed after a good window
\* had been counted; the counter kept its non-zero value.
C16_Witness ==
  /\ lastOp = "process"
  /\ detIn = <<Zero, Zero, Zero>>
  /\ prior.qualityFrameCount > 0
  /\ qualityFrameCount = prior.qualityFrameCount
  /\ result.qualityStatus = "Fair"
  /\ result.snr_dB = Zero

\* C17 as stated: a handled frame writes its sample at position (frame index
\* mod windowLength) of the buffer and nowhere else, and at every Active
\* boundary, where the buffer is read, the buffer in storage order is the
\* windowLength most recently ingested samples, oldest first.
C17_BufferChronological ==
  [][(nFrame > 100 /\ nFrame' = nFrame + 1) =>
       LET wl == windowLength
           pos == (nFrame % wl) + 1
       IN  /\ \A i \in 1..wl : i # pos => acdc'[i] = acdc[i]
           /\ acdc'[pos] = recent'[Len(recent')]
           /\ (nFrame % wl = 0 /\ ((nFrame \div wl) \div 100) % 2 = 0) =>
                acdc' = recent']_vars

C19_StabilitySequence ==
  lastOp = "process" =>
    LET cur  == calculatePerfusionIndex(rawIn, detIn).variance
        prev == prior.previousVariance
        lo   == IF LT(cur, prev) THEN cur ELSE prev
        hi   == IF LT(cur, prev) THEN prev ELSE cur
    IN  (~IsNaN(cur) /\ ~IsNaN(prev)) =>
          /\ previousVariance = cur
          /\ result.signalStability =
               (IF prior.op \in {"new", "reset"} THEN One
                ELSE IF hi = Zero THEN Zero
                ELSE Div(lo, hi))
          /\ GE(result.signalStability, Zero)
          /\ LE(result.signalStability, One)

\* C20 as stated: totalPower is the sum of the bins 1..psd.length-1,
\* signalPower the sum of the bins lowIdx..highIdx after both indices are
\* clamped into [1, psd.length-1], noisePower = totalPower - signalPower,
\* and 0 <= signalPower <= totalPower, noisePower >= 0.
C20_ClampedBand ==
  (snrOut.snr_dB # "none" /\ Len(psdIn) >= 2) =>
    LET n == Len(psdIn)
        clamp(i) == IF i < 1 THEN 1 ELSE IF i > n - 1 THEN n - 1 ELSE i
        lowIdx  == clamp(MathFloor(Div(bandIn.low, bandIn.freqResolution))[1])
        highIdx == clamp(MathCeil(Div(bandIn.high, bandIn.freqResolution))[1])
        total  == SumTo([i \in 1..n |-> IF i - 1 >= 1 THEN psdIn[i] ELSE Zero], n)
        signal == SumTo([i \in 1..n |-> IF i - 1 >= lowIdx /\ i - 1 <= highIdx
                                          THEN psdIn[i] ELSE Zero], n)
    IN  /\ snrOut.totalPower = total
        /\ snrOut.signalPower = signal
        /\ snrOut.noisePower = Sub(total, signal)
        /\ GE(snrOut.signalPower, Zero)
        /\ LE(snrOut.signalPower, snrOut.totalPower)
        /\ GE(snrOut.noisePower, Zero)

\* C20 amended: totalPower is the sum of the bins 1..psd.length-1,
\* signalPower the sum of those bins i of 1..psd.length-1 with lowIdx <= i
\* <= highIdx, the indices not being clamped (0 when the band misses the
\* spectrum), noisePower = totalPower - signalPower, and 0 <= signalPower
\* <= totalPower, noisePower >= 0.
C20_BandIntersection ==
  snrOut.snr_dB # "none" =>
    LET n == Len(psdIn)
        lowIdx  == MathFloor(Div(bandIn.low, bandIn.freqResolution))[1]
        highIdx == MathCeil(Div(bandIn.high, bandIn.freqResolution))[1]
        total  == SumTo([i \in 1..n |-> IF i - 1 >= 1 THEN psdIn[i] ELSE Zero], n)
        signal == SumTo([i \in 1..n |-> IF /\ i - 1 >= 1
                                             /\ i - 1 >= lowIdx
                                             /\ i - 1 <= highIdx
                                          THEN psdIn[i] ELSE Zero], n)
    IN  /\ snrOut.totalPower = total
        /\ snrOut.signalPower = signal
        /\ snrOut.noisePower = Sub(total, signal)
        /\ GE(snrOut.signalPower, Zero)
        /\ LE(snrOut.signalPower, snrOut.totalPower)
        /\ GE(snrOut.noisePower, Zero)

\* C20 witness: a band wholly above a spectrum with power in its last bin
\* has been evaluated: no signal power, all power is noise.
C20_Witness ==
  /\ snrOut.snr_dB # "none"
  /\ psdIn = <<Num(5), Num(1), Num(2), Num(3)>>
  /\ bandIn = [low |-> Num(40), high |-> Num(50), freqResolution |-> One]
  /\ snrOut.signalPower = Zero
  /\ snrOut.noisePower = Num(6)
  /\ snrOut.totalPower = Num(6)

\* C21 as stated: peakIdx lies inside [lowIdx, highIdx] and is never bin 0,
\* psd[peakIdx] >= psd[i] for every bin i of the band, and peakFrequency =
\* peakIdx * freqResolution.
C21_PeakInBand ==
  snrOut.snr_dB # "none" =>
    LET n == Len(psdIn)
        lowIdx  == MathFloor(Div(bandIn.low, bandIn.freqResolution))[1]
        highIdx == MathCeil(Div(bandIn.high, bandIn.freqResolution))[1]
        band == {i \in 1..(n - 1) : lowIdx <= i /\ i <= highIdx}
    IN  /\ snrOut.peakIdx >= lowIdx
        /\ snrOut.peakIdx <= highIdx
        /\ snrOut.peakIdx # 0
        /\ \A i \in band : GE(At(psdIn, snrOut.peakIdx), psdIn[i + 1])
        /\ snrOut.peakFrequency = Mul(Num(snrOut.peakIdx), bandIn.freqResolution)

\* C21 amended: when some bin of the band (the bins i of 1..psd.length-1
\* with lowIdx <= i <= highIdx) holds a power above 0, peakIdx is the lowest
\* index among the largest bins of the band; when no bin of the band holds
\* a power above 0 (empty band, band outside the spectrum, flat spectrum)
\* peakIdx is 0; in both cases peakFrequency = peakIdx * freqResolution.
C21_PeakInBandOrZero ==
  snrOut.snr_dB # "none" =>
    LET n == Len(psdIn)
        lowIdx  == MathFloor(Div(bandIn.low, bandIn.freqResolution))[1]
        highIdx == MathCeil(Div(bandIn.high, bandIn.freqResolution))[1]
        band == {i \in 1..(n - 1) : lowIdx <= i /\ i <= highIdx}
        k == snrOut.peakIdx
    IN  /\ IF \E i \in band : GT(psdIn[i + 1], Zero)
             THEN /\ k \in band
                  /\ \A i \in band : GE(psdIn[k + 1], psdIn[i + 1])
                  /\ \A i \in band : i < k => LT(psdIn[i + 1], psdIn[k + 1])
             ELSE k = 0
        /\ snrOut.peakFrequency = Mul(Num(k), bandIn.freqResolution)

\* C21 witness: the band 1..2 Hz of a spectrum whose largest bin (bin 4)
\* lies outside the band has been evaluated: the peak is bin 1.
C21_Witness ==
  /\ snrOut.snr_dB # "none"
  /\ psdIn = Ints(<<3, 1, 0, 2, 6, 0, 1, 5>>)
  /\ bandIn = [low |-> Num(1), high |-> Num(2), freqResolution |-> One]
  /\ snrOut.peakIdx = 1
  /\ snrOut.peakFrequency = One

\* C22: detrend returns an array of the length of its argument, for every
\* argument; on an array of n >= 2 numbers the result differs from the
\* argument by a linear function of the index (same index correspondence)
\* and is the residual of the least-squares line (it sums to zero and is
\* orthogonal to the index); and for every linear argument y_i = a + b * i
\* with n >= 2 the result is the zero vector.
C22_DetrendLinear ==
  detrended.called =>
    LET y == yIn
        d == detrended.value
        n == Len(y)
        numbers == \A i \in 1..n : ~IsNaN(y[i])
        linear == \A i \in 2..(n - 1) :
                    Sub(y[i + 1], y[i]) = Sub(y[i], y[i - 1])
    IN  /\ Len(d) = n
        /\ (numbers /\ n >= 2) =>
             /\ \A i \in 2..(n - 1) :
                  Sub(Sub(d[i + 1], d[i]), Sub(d[i], d[i - 1]))
                    = Sub(Sub(y[i + 1], y[i]), Sub(y[i], y[i - 1]))
             /\ SumTo(d, n) = Zero
             /\ SumTo([i \in 1..n |-> Mul(Num(i - 1), d[i])], n) = Zero
        /\ (numbers /\ n >= 2 /\ linear) => d = Fill(n, Zero)

\* C22 witness: detrend has been applied to the line 1/2 + 3 i of four
\* samples and returned four zeros.
C22_Witness ==
  /\ detrended.called
  /\ yIn = <<Rat(1, 2), Rat(7, 2), Rat(13, 2), Rat(19, 2)>>
  /\ detrended.value = <<Zero, Zero, Zero, Zero>>

\* C23: previousVariance and qualityFrameCount change only in a step that
\* handles an Active window boundary, which runs process() once: it leaves
\* the variance of that window in previousVariance and adds windowLength or
\* nothing to qualityFrameCount.  Every other step of the monitor (Hold
\* boundary, non-boundary frame, skipped frame, stop(), the asynchronous
\* steps of start()) leaves both fields unchanged; the monitor never calls
\* reset().
C23_ProcessorStateOwned ==
  [][LET wl == windowLength
         activeBoundary == /\ nFrame' = nFrame + 1
                           /\ nFrame > 100
                           /\ nFrame % wl = 0
                           /\ ((nFrame \div wl) \div 100) % 2 = 0
     IN  IF activeBoundary
           THEN /\ previousVariance' = calculatePerfusionIndex(acdc', ac').variance
                /\ qualityFrameCount' \in {qualityFrameCount, qualityFrameCount + wl}
           ELSE /\ previousVariance' = previousVariance
                /\ qualityFrameCount' = qualityFrameCount]_vars

\* C23 witness: the first Hold boundary has been handled and stop() has
\* been called after it; the processor still holds the variance and the
\* counter left by the Active windows.
C23_Witness ==
  /\ stopped
  /\ nFrame - 1 = 100 * windowLength
  /\ isSignal = 0
  /\ previousVariance # Zero
  /\ qualityFrameCount = windowLength

C25_SingleLoop ==
  /\ pending <= 1
  /\ (stopped /\ starting = 0 /\ loading = 0) => pending = 0

\* C26 as stated: the callbacks of one step fire in the order
\* onQualityUpdate (if any), onSignalUpdate, onFrame, and onReady fires
\* before every onQualityUpdate, onSignalUpdate and onFrame of the start()
\* call that fires it.
C26_CallbackOrder ==
  LET frameCalls == SelectSeq(calls, LAMBDA c : c.name \in {"onQualityUpdate",
                                "onSignalUpdate", "onFrame"})
      names == [i \in 1..Len(frameCalls) |-> frameCalls[i].name]
  IN  /\ names \in {<< >>, <<"onSignalUpdate", "onFrame">>,
                    <<"onQualityUpdate", "onSignalUpdate", "onFrame">>}
      /\ \A i, j \in 1..Len(calls) :
           (calls[i].name = "onReady" /\ calls[j].name # "onReady") => i < j

=============================================================================
